---- MODULE Spec2Model ----
(***************************************************************************)
(* reposcore/github_utils.py: validation of an 'owner/repo' identifier and *)
(* three GitHub probes (token, repository existence, rate limit), each one *)
(* GET issued through retry_request, which is session.get wrapped by       *)
(* @retry(max_retries=3, retry_delay=1.0).                                 *)
(*                                                                         *)
(* reposcore/retry_decorator.py is not part of the sources at hand; the    *)
(* loop of `retry` is modelled from the written specification (section     *)
(* 4.1) and its definitions are marked as such below.                      *)
(*                                                                         *)
(* Optional values (Python None, a missing dict key) are encoded as a      *)
(* sequence of length 0 or 1: <<>> is None, <<v>> is v.                    *)
(***************************************************************************)
EXTENDS Integers, Sequences, FiniteSets, TLC

VARIABLES
    caller,     \* the function invoked, "none" before the invocation
    envToken,   \* what os.getenv('GITHUB_TOKEN') gave: <<>> unset, <<"">>, <<t>>
    repoArg,    \* <<>> or <<the repo argument of the invocation>>
    args,       \* <<>> or <<the arguments handed to retry_request>>
    nCalls,     \* retry_request calls made by the invocation
    state,      \* the retry loop: Idle, Attempting, Waiting, Success, Fail
    attempt,    \* attempts completed by the retry loop
    lastError,  \* <<>> or <<the error captured by the latest failed attempt>>
    response,   \* <<>> or <<the Response retry_request returned>>
    trace,      \* what happened on the wire and the clock: GETs and sleeps
    outcome,    \* <<>> or <<how the invoked function ended>>
    log         \* records written with logger.* and print

vars == <<caller, envToken, repoArg, args, nCalls, state, attempt, lastError, response,
          trace, outcome, log>>

-----------------------------------------------------------------------------
(* Bounds of the model *)

\* longest string handed to validate_repo_format
MaxRepoLen == 4

\* longest repo string handed to check_github_repo_exists
MaxNameLen == 1

Some(v) == <<v>>

None == <<>>

-----------------------------------------------------------------------------
(* Characters and strings *)

\* a sample of \w (letter, digit, underscore): Python's \w on str
WordChars == {"a", "0", "_"}

Alphabet == WordChars \cup {"-", "/", ".", " ", "\n"}

Strings(n) == UNION {[1..k -> Alphabet] : k \in 0..n}

Repos == Strings(MaxRepoLen)

RepoNames == Strings(MaxNameLen)

-----------------------------------------------------------------------------
(* re: the part of the regular-expression engine the pattern uses *)

\* membership in a character class of the pattern
InClass(c, class) ==
    CASE class = "[\\w\\-]" -> c \in WordChars \/ c = "-"
      [] class = "/"        -> c = "/"

\* r'^[\w\-]+/[\w\-]+$'
Pattern ==
    << [op |-> "^", class |-> ""],
       [op |-> "+", class |-> "[\\w\\-]"],
       [op |-> "1", class |-> "/"],
       [op |-> "+", class |-> "[\\w\\-]"],
       [op |-> "$", class |-> ""] >>

\* how many characters of s from position pos+1 on lie in class
RECURSIVE Run(_, _, _)
Run(s, pos, class) ==
    IF pos < Len(s) /\ InClass(s[pos + 1], class)
    THEN 1 + Run(s, pos + 1, class)
    ELSE 0

\* the positions at which a match of p[i..] that starts at pos can end
RECURSIVE Ends(_, _, _, _)
Ends(p, s, i, pos) ==
    IF i > Len(p) THEN {pos}
    ELSE CASE p[i].op = "^" ->
                IF pos = 0 THEN Ends(p, s, i + 1, pos) ELSE {}
           [] p[i].op = "$" ->
                \* without re.MULTILINE: at the end, or before a final newline
                IF pos = Len(s) \/ (pos = Len(s) - 1 /\ s[Len(s)] = "\n")
                THEN Ends(p, s, i + 1, pos) ELSE {}
           [] p[i].op = "1" ->
                IF pos < Len(s) /\ InClass(s[pos + 1], p[i].class)
                THEN Ends(p, s, i + 1, pos + 1) ELSE {}
           [] p[i].op = "+" ->
                UNION {Ends(p, s, i + 1, pos + n) : n \in 1..Run(s, pos, p[i].class)}

\* re.match: the pattern matches a prefix of s
re_match(p, s) == Ends(p, s, 1, 0) # {}

\* re.fullmatch: the pattern matches all of s
re_fullmatch(p, s) == Len(s) \in Ends(p, s, 1, 0)

RepoMatches_Match(repo) == re_match(Pattern, repo)

\* line 14: re.fullmatch(pattern, repo)
RepoMatches(repo) == re_fullmatch(Pattern, repo)

\* validate_repo_format: the value returned and what was printed
validate_repo_format(repo) ==
    IF RepoMatches(repo)
    THEN [value |-> TRUE, log |-> <<>>]
    ELSE [value |-> FALSE,
          log |-> <<[level |-> "print", text |-> <<"bad repo format">>]>>]

-----------------------------------------------------------------------------
(* The environment, requests and responses *)

\* os.getenv('GITHUB_TOKEN')
Tokens == {None, Some(""), Some("ghp")}

\* lines 23-28 (the same statements at 44-49 and 73-78): the headers of a probe
Headers(token) ==
    IF token # None /\ token[1] # ""
    THEN [Accept |-> Some("application/vnd.github+json"),
          UserAgent |-> Some("reposcore-py"),
          Authorization |-> Some(<<"token ", token[1]>>)]
    ELSE [Accept |-> Some("application/vnd.github+json"),
          UserAgent |-> Some("reposcore-py"),
          Authorization |-> None]

UserUrl == <<"https://api.github.com/user">>

\* line 43: f"https://api.github.com/repos/{repo}"
RepoUrl(repo) == <<"https://api.github.com/repos/">> \o repo

RateLimitUrl == <<"https://api.github.com/rate_limit">>

\* requests.Session(): the identity of the session object
Sessions == {"session1", "session2"}

\* arguments a direct caller of retry_request may pass
DirectUrls == {UserUrl, <<"https://example.org/">>}

DirectParams == {None, Some([page |-> "2"])}

DirectHeaders == {None, Some(Headers(None))}

StatusCodes == {200, 403, 404, 500}

\* the 'core' object of the rate-limit payload; a key may be missing
Cores == [remaining : {None, Some(4999)}, limit : {None, Some(5000)}]

\* a decoded JSON payload: {} | {resources: {}} | {resources: {core: {..}}}
Payloads ==
    {[resources |-> None], [resources |-> Some([core |-> None])]}
        \cup {[resources |-> Some([core |-> Some(c)])] : c \in Cores}

\* a Response: body is None when the bytes are not JSON
Responses == [status_code : StatusCodes, body : {None} \cup {Some(d) : d \in Payloads}]

ErrorTypes == {"ConnectionError", "Timeout"}

\* the exception object raised by the n-th GET of the call
Errors(n) == [type : ErrorTypes, id : {n}]

Returned(resp) == [kind |-> "response", response |-> Some(resp), error |-> None]

Raised(err) == [kind |-> "raise", response |-> None, error |-> Some(err)]

-----------------------------------------------------------------------------
(* retry_request and the retry decorator *)

RetryPolicy_Two == [max_retries |-> 2, retry_delay |-> 1]

RetryPolicy_Four == [max_retries |-> 4, retry_delay |-> 1]

RetryPolicy_Slow == [max_retries |-> 3, retry_delay |-> 2]

\* @retry(max_retries=3, retry_delay=1.0)
MaxRetries == 3

RetryDelay == 1

\* line 95: the arguments of the decorator
RetryPolicy == [max_retries |-> MaxRetries, retry_delay |-> RetryDelay]

retry_request_body_NoParams(session, url, params, headers, t) ==
    [request |-> [session |-> session, url |-> url, params |-> None,
                  headers |-> headers],
     result |-> t]

retry_request_body_RaiseForStatus(session, url, params, headers, t) ==
    [request |-> [session |-> session, url |-> url, params |-> params,
                  headers |-> headers],
     result |-> IF t.kind = "response" /\ t.response[1].status_code # 200
                THEN Raised([type |-> "HTTPError", id |-> 0])
                ELSE t]

\* line 108: return session.get(url, params=params, headers=headers)
\* t is what the transport does with this GET; the body passes it on as it is
retry_request_body(session, url, params, headers, t) ==
    [request |-> [session |-> session, url |-> url, params |-> params,
                  headers |-> headers],
     result |-> t]

\* total attempts the policy allows, the first included
MaxAttempts(policy) == policy.max_retries

\* the wrapper after an attempt that raised: wait and go on, or give up
AfterFailure(policy, failed) ==
    IF failed < MaxAttempts(policy) THEN "Waiting" ELSE "Fail"

\* time.sleep(retry_delay) between two attempts
SleepFor(policy, failed) == policy.retry_delay

GetEvent(request, t) ==
    [ev |-> "get", request |-> Some(request), result |-> Some(t), delay |-> 0]

SleepEvent(d) ==
    [ev |-> "sleep", request |-> None, result |-> None, delay |-> d]

-----------------------------------------------------------------------------
(* The three probes, each as a function of how its retry_request call ended *)

Return(v) == [kind |-> "return", value |-> v]

Exit(code) == [kind |-> "exit", value |-> Some(code)]

Raise(err) == [kind |-> "raise", value |-> Some(err)]

Log(level, text) == [level |-> level, text |-> text]

\* dict.get(key, default) on an optional entry
Get(entry, default) == IF entry = None THEN default ELSE entry[1]

EmptyCore == [remaining |-> None, limit |-> None]

EmptyResources == [core |-> None]

Format_NoDefault(entry) == IF entry = None THEN "None" ELSE ToString(entry[1])

\* f"{v}" of core.get(key, "N/A")
Format(entry) == IF entry = None THEN "N/A" ELSE ToString(entry[1])

validate_token_NoExit(res) ==
    IF res.kind = "raise"
    THEN [outcome |-> Exit(1),
          log |-> <<Log("error", <<"auth request failed", res.error[1].type>>)>>]
    ELSE IF res.response[1].status_code # 200
    THEN [outcome |-> Return(None), log |-> <<Log("error", <<"invalid token">>)>>]
    ELSE [outcome |-> Return(None), log |-> <<>>]

\* lines 31-38
validate_token(res) ==
    IF res.kind = "raise"
    THEN [outcome |-> Exit(1),
          log |-> <<Log("error", <<"auth request failed", res.error[1].type>>)>>]
    ELSE IF res.response[1].status_code # 200
    THEN [outcome |-> Exit(1), log |-> <<Log("error", <<"invalid token">>)>>]
    ELSE [outcome |-> Return(None), log |-> <<>>]

check_github_repo_exists_Reraise(r, res) ==
    IF res.kind = "raise"
    THEN [outcome |-> Raise(res.error[1]),
          log |-> <<Log("warning", <<"exists request failed", res.error[1].type>>)>>]
    ELSE [outcome |-> Return(Some(res.response[1].status_code = 200)),
          log |-> IF res.response[1].status_code = 200 THEN <<>>
                  ELSE <<Log("warning", <<"HTTP status">>)>>]

\* lines 52-68
check_github_repo_exists(r, res) ==
    IF res.kind = "raise"
    THEN [outcome |-> Return(Some(FALSE)),
          log |-> <<Log("warning", <<"exists request failed", res.error[1].type>>)>>]
    ELSE LET status_code == res.response[1].status_code IN
         IF status_code = 200
         THEN [outcome |-> Return(Some(TRUE)), log |-> <<>>]
         ELSE IF status_code = 403
         THEN [outcome |-> Return(Some(FALSE)),
               log |-> <<Log("warning", <<"403">>), Log("info", <<"use a token">>)>>]
         ELSE IF status_code = 404
         THEN [outcome |-> Return(Some(FALSE)),
               log |-> <<Log("warning", <<"repo not found">> \o r)>>]
         ELSE [outcome |-> Return(Some(FALSE)),
               log |-> <<Log("warning", <<"HTTP status", ToString(status_code)>>)>>]

\* lines 81-93
check_rate_limit(res) ==
    IF res.kind = "raise"
    THEN [outcome |-> Return(None),
          log |-> <<Log("error", <<"rate limit request failed", res.error[1].type>>)>>]
    ELSE LET resp == res.response[1] IN
         IF resp.status_code = 200
         THEN IF resp.body = None
              THEN \* response.json() raises on a body that is not JSON
                   [outcome |-> Raise("JSONDecodeError"), log |-> <<>>]
              ELSE LET data == resp.body[1]
                       core == Get(Get(data.resources, EmptyResources).core, EmptyCore)
                       remaining == Format(core.remaining)
                       limit == Format(core.limit)
                   IN [outcome |-> Return(None),
                       log |-> <<Log("info", <<"rate limit", remaining, " / ", limit>>)>>]
         ELSE [outcome |-> Return(None),
               log |-> <<Log("error", <<"rate limit status", ToString(resp.status_code)>>)>>]

-----------------------------------------------------------------------------
(* The state machine *)

Init ==
    /\ caller = "none"
    /\ envToken = None
    /\ repoArg = None
    /\ args = None
    /\ nCalls = 0
    /\ state = "Idle"
    /\ attempt = 0
    /\ lastError = None
    /\ response = None
    /\ trace = <<>>
    /\ outcome = None
    /\ log = <<>>

\* retry_request(session, url, params, headers) is entered
Enter(session, url, params, headers) ==
    /\ args' = Some([session |-> session, url |-> url, params |-> params,
                     headers |-> headers])
    /\ nCalls' = nCalls + 1
    /\ state' = "Attempting"
    /\ UNCHANGED <<attempt, lastError, response, trace, outcome, log>>

\* lines 12-18, the whole function
CallValidateRepoFormat ==
    /\ caller = "none"
    /\ \E r \in Repos :
         /\ caller' = "validate_repo_format"
         /\ repoArg' = Some(r)
         /\ outcome' = Some(Return(Some(validate_repo_format(r).value)))
         /\ log' = log \o validate_repo_format(r).log
    /\ UNCHANGED <<envToken, args, nCalls, state, attempt, lastError, response, trace>>

\* lines 22-32
CallValidateToken ==
    /\ caller = "none"
    /\ \E tok \in Tokens :
         /\ caller' = "validate_token"
         /\ envToken' = tok
         /\ Enter("session1", UserUrl, None, Some(Headers(tok)))
    /\ UNCHANGED repoArg

\* lines 42-53
CallCheckGithubRepoExists ==
    /\ caller = "none"
    /\ \E tok \in Tokens, r \in RepoNames :
         /\ caller' = "check_github_repo_exists"
         /\ envToken' = tok
         /\ repoArg' = Some(r)
         /\ Enter("session1", RepoUrl(r), None, Some(Headers(tok)))

\* lines 72-82
CallCheckRateLimit ==
    /\ caller = "none"
    /\ \E tok \in Tokens :
         /\ caller' = "check_rate_limit"
         /\ envToken' = tok
         /\ Enter("session1", RateLimitUrl, None, Some(Headers(tok)))
    /\ UNCHANGED repoArg

\* retry_request called by code outside this module
CallRetryRequest ==
    /\ caller = "none"
    /\ \E s \in Sessions, u \in DirectUrls, p \in DirectParams, h \in DirectHeaders :
         /\ caller' = "retry_request"
         /\ Enter(s, u, p, h)
    /\ UNCHANGED <<envToken, repoArg>>

\* one attempt of the retry loop: the wrapped function runs, the transport does t
Attempt(t) ==
    LET a == args[1]
        r == retry_request_body(a.session, a.url, a.params, a.headers, t)
    IN /\ state = "Attempting"
       /\ attempt' = attempt + 1
       /\ trace' = Append(trace, GetEvent(r.request, t))
       /\ IF r.result.kind = "response"
          THEN /\ state' = "Success"
               /\ response' = r.result.response
               /\ UNCHANGED lastError
          ELSE /\ state' = AfterFailure(RetryPolicy, attempt + 1)
               /\ lastError' = r.result.error
               /\ UNCHANGED response
       /\ UNCHANGED <<caller, envToken, repoArg, args, nCalls, outcome, log>>

AttemptReturns == \E resp \in Responses : Attempt(Returned(resp))

AttemptRaises == \E err \in Errors(attempt + 1) : Attempt(Raised(err))

\* the wait between a failed attempt and the next one
Sleep ==
    /\ state = "Waiting"
    /\ trace' = Append(trace, SleepEvent(SleepFor(RetryPolicy, attempt)))
    /\ state' = "Attempting"
    /\ UNCHANGED <<caller, envToken, repoArg, args, nCalls, attempt, lastError,
                   response, outcome>>
    /\ UNCHANGED log

\* how the retry_request call ended, as its caller sees it
RetryResult ==
    IF state = "Success"
    THEN [kind |-> "return", response |-> response, error |-> None]
    ELSE [kind |-> "raise", response |-> None, error |-> lastError]

Ended == state \in {"Success", "Fail"}

Finish(r) ==
    /\ Ended
    /\ outcome = None
    /\ outcome' = Some(r.outcome)
    /\ log' = log \o r.log
    /\ UNCHANGED <<caller, envToken, repoArg, args, nCalls, state, attempt, lastError,
                   response, trace>>

FinishValidateToken ==
    caller = "validate_token" /\ Finish(validate_token(RetryResult))

FinishCheckGithubRepoExists ==
    caller = "check_github_repo_exists"
        /\ Finish(check_github_repo_exists(repoArg[1], RetryResult))

FinishCheckRateLimit ==
    caller = "check_rate_limit" /\ Finish(check_rate_limit(RetryResult))

\* the direct caller gets the response, or the error the wrapper raised
FinishRetryRequest ==
    caller = "retry_request"
        /\ Finish([outcome |-> IF state = "Success" THEN Return(response)
                               ELSE Raise(lastError[1]),
                   log |-> <<>>])

Next ==
    \/ CallValidateRepoFormat
    \/ CallValidateToken
    \/ CallCheckGithubRepoExists
    \/ CallCheckRateLimit
    \/ CallRetryRequest
    \/ AttemptReturns
    \/ AttemptRaises
    \/ Sleep
    \/ FinishValidateToken
    \/ FinishCheckGithubRepoExists
    \/ FinishCheckRateLimit
    \/ FinishRetryRequest

Spec == Init /\ [][Next]_vars

\* every GET returns or raises, and a sleep ends
FairSpec == Spec /\ WF_vars(AttemptReturns \/ AttemptRaises) /\ WF_vars(Sleep)

-----------------------------------------------------------------------------
(* Reading the trace *)

IsGet(e) == e.ev = "get"

IsSleep(e) == e.ev = "sleep"

\* the GETs issued so far, in order
Gets == SelectSeq(trace, IsGet)

\* the sleeps made so far, in order
Sleeps == SelectSeq(trace, IsSleep)

\* what the transport did with the i-th GET
Result(i) == Gets[i].result[1]

\* the first n GETs all raised
AllRaised(n) == \A i \in 1..n : Result(i).kind = "raise"

Probes == {"validate_token", "check_github_repo_exists", "check_rate_limit"}

-----------------------------------------------------------------------------
(* Claims *)

\* C1: when the transport raises on exactly the first k attempts, k < max_attempts,
\* and the (k+1)-th attempt returns a response, the call has returned that response
\* after k+1 attempts and k delays (k = 0: first attempt, no delay); and after k
\* such failures the call has not given up, so that (k+1)-th attempt is made.
C1_ReturnsAfterKFailures ==
    LET n == Len(Gets) IN
    /\ (n >= 1 /\ n - 1 < MaxRetries /\ AllRaised(n - 1) /\ Result(n).kind = "response")
         => /\ state = "Success"
            /\ response = Result(n).response
            /\ RetryResult.kind = "return"
            /\ attempt = n
            /\ Len(Sleeps) = n - 1
            /\ (caller = "retry_request" /\ outcome # None
                  => outcome[1] = Return(Result(n).response))
    /\ (state # "Idle" /\ n < MaxRetries /\ AllRaised(n))
         => state \in {"Attempting", "Waiting"}

C1_Witness ==
    /\ state = "Success"
    /\ Len(Gets) = 3
    /\ AllRaised(2)
    /\ Len(Sleeps) = 2
    /\ caller = "retry_request"
    /\ outcome # None

\* C2: when the transport raises on every one of the max_attempts attempts, the
\* call raises to its caller the error of the last attempt, and no GET follows
\* the max_attempts-th one.
C2_ExhaustionRaisesLastError ==
    LET n == Len(Gets) IN
    /\ n <= MaxRetries
    /\ (n = MaxRetries /\ AllRaised(n))
         => /\ state = "Fail"
            /\ lastError = Result(n).error
            /\ lastError[1].id = MaxRetries
            /\ RetryResult = [kind |-> "raise", response |-> None,
                              error |-> Result(n).error]
            /\ trace[Len(trace)] = Gets[n]
            /\ (caller = "retry_request" /\ outcome # None
                  => outcome[1] = Raise(Result(n).error[1]))
    /\ state = "Fail" => (n = MaxRetries /\ AllRaised(n))

C2_Witness ==
    /\ state = "Fail"
    /\ Len(Gets) = 3
    /\ Result(1).error[1].type = "ConnectionError"
    /\ Result(3).error[1].type = "Timeout"
    /\ caller = "retry_request"
    /\ outcome # None
    /\ outcome[1].kind = "raise"

\* C3: an attempt that returns a response, whatever its status code, ends the
\* call: the response is returned as it is, no attempt and no sleep follow, and
\* nothing is raised; every attempt after the first follows one that raised.
C3_ResponseReturnedAsIs ==
    LET n == Len(Gets) IN
    \A i \in 1..n :
        /\ Result(i).kind = "response"
             => /\ i = n
                /\ trace[Len(trace)] = Gets[i]
                /\ state = "Success"
                /\ response = Result(i).response
                /\ RetryResult.kind = "return"
                /\ (caller = "retry_request" /\ outcome # None
                      => outcome[1] = Return(Result(i).response))
        /\ i > 1 => Result(i - 1).kind = "raise"

C3_Witness ==
    /\ caller = "retry_request"
    /\ outcome # None
    /\ outcome[1].kind = "return"
    /\ outcome[1].value[1].status_code = 404
    /\ Len(Gets) = 2

\* the levels of the records logged so far
Levels == {log[i].level : i \in DOMAIN log}

\* C4: check_github_repo_exists never raises; it returns True exactly when the
\* retry-wrapped GET returned a response of status 200; for 404, 403 and every
\* other status it returns False and logs a warning; when every attempt raised it
\* returns False.
C4_RepoExistsIffStatus200 ==
    (caller = "check_github_repo_exists" /\ outcome # None)
      => /\ outcome[1].kind = "return"
         /\ outcome[1].value \in {Some(TRUE), Some(FALSE)}
         /\ outcome[1].value = Some(TRUE)
              <=> (state = "Success" /\ response[1].status_code = 200)
         /\ (state = "Success" /\ response[1].status_code # 200)
              => "warning" \in Levels
         /\ state = "Fail"
              => (Len(Gets) = MaxRetries /\ outcome[1].value = Some(FALSE))

C4_Witness ==
    /\ caller = "check_github_repo_exists"
    /\ outcome # None
    /\ state = "Fail"
    /\ AllRaised(3)
    /\ \A i \in 1..3 : Result(i).error[1].type = "ConnectionError"
    /\ outcome[1] = Return(Some(FALSE))

\* C5: validate_token ends the process with a non-zero exit status exactly when
\* the retry-wrapped GET raised after its attempts were exhausted or returned a
\* response whose status is not 200; on status 200 it returns normally.
C5_TokenExitIffNot200 ==
    (caller = "validate_token" /\ outcome # None)
      => /\ outcome[1].kind \in {"exit", "return"}
         /\ outcome[1].kind = "exit"
              <=> (state = "Fail" \/ (state = "Success" /\ response[1].status_code # 200))
         /\ outcome[1].kind = "exit" => outcome[1].value[1] # 0
         /\ (state = "Success" /\ response[1].status_code = 200)
              => outcome[1] = Return(None)

C5_Witness ==
    /\ caller = "validate_token"
    /\ outcome # None
    /\ outcome[1].kind = "exit"
    /\ state = "Success"
    /\ response[1].status_code = 403

\* the text check_rate_limit is to report for a field of resources.core
Reported(data, field) ==
    IF /\ data.resources # None
       /\ data.resources[1].core # None
       /\ data.resources[1].core[1][field] # None
    THEN ToString(data.resources[1].core[1][field][1])
    ELSE "N/A"

\* C8: check_rate_limit returns without raising and reports no figure, logging an
\* error, when the retry-wrapped GET raised or returned a status other than 200;
\* only on status 200 does it read the body and report remaining / limit, with
\* "N/A" in place of a missing resources.core.remaining or resources.core.limit.
C8_RateLimitReport ==
    (caller = "check_rate_limit" /\ outcome # None)
      => /\ (state = "Fail" \/ response[1].status_code # 200)
              => /\ outcome[1] = Return(None)
                 /\ Len(log) = 1
                 /\ log[1].level = "error"
         /\ "info" \in Levels
              => (state = "Success" /\ response[1].status_code = 200)
         /\ (state = "Success" /\ response[1].status_code = 200
               /\ response[1].body # None)
              => /\ outcome[1] = Return(None)
                 /\ log = <<Log("info", <<"rate limit",
                                          Reported(response[1].body[1], "remaining"),
                                          " / ",
                                          Reported(response[1].body[1], "limit")>>)>>

C8_Witness ==
    /\ caller = "check_rate_limit"
    /\ outcome # None
    /\ state = "Success"
    /\ response[1].status_code = 200
    /\ response[1].body # None
    /\ log[1].text = <<"rate limit", "N/A", " / ", "5000">>

\* C6: every wait of the retry loop lasts the one policy delay (1.0), whatever
\* the number of failures before it; a wait comes only right after an attempt
\* that failed and is followed by the next attempt, and consecutive attempts are
\* separated by exactly one wait.
C6_FixedDelay ==
    \A i \in DOMAIN trace :
        /\ IsSleep(trace[i])
             => /\ trace[i].delay = RetryDelay
                /\ i > 1
                /\ IsGet(trace[i - 1])
                /\ trace[i - 1].result[1].kind = "raise"
                /\ IF i < Len(trace) THEN IsGet(trace[i + 1])
                   ELSE state = "Attempting"
        /\ (IsGet(trace[i]) /\ i > 1) => IsSleep(trace[i - 1])

C6_Witness ==
    /\ Len(Sleeps) = 2
    /\ Len(Gets) = 3
    /\ Sleeps[1].delay = Sleeps[2].delay

\* C9: every GET of a retry_request call carries the session, url, query
\* parameters and headers the caller passed, failed attempts included; each probe
\* makes exactly one retry_request call, to its own endpoint.
C9_SameRequestEveryAttempt ==
    /\ \A i \in 1..Len(Gets) : Gets[i].request = args
    /\ caller \in Probes
         => /\ nCalls = 1
            /\ args[1].params = None
            /\ args[1].headers = Some(Headers(envToken))
            /\ args[1].url = CASE caller = "validate_token" -> UserUrl
                               [] caller = "check_github_repo_exists" ->
                                    <<"https://api.github.com/repos/">> \o repoArg[1]
                               [] caller = "check_rate_limit" -> RateLimitUrl
    /\ caller = "retry_request" => nCalls = 1

C9_Witness ==
    /\ caller = "retry_request"
    /\ Len(Gets) = 3
    /\ args[1].params # None
    /\ args[1].headers # None
    /\ \A i \in 1..3 : Gets[i].request = args

\* the strings validate_repo_format is to accept: a non-empty run of word
\* characters or hyphens, one '/', a non-empty run of word characters or hyphens
WellFormed(s) ==
    \E i \in 1..Len(s) :
        /\ s[i] = "/"
        /\ 1 < i
        /\ i < Len(s)
        /\ \A j \in (1..Len(s)) \ {i} : s[j] \in WordChars \cup {"-"}

\* C10: validate_repo_format returns True exactly for owner/repo strings of that
\* shape and False for every other string; it does not raise and issues no GET.
C10_RepoFormat ==
    (caller = "validate_repo_format")
      => /\ outcome # None
         /\ outcome[1].kind = "return"
         /\ outcome[1].value = Some(WellFormed(repoArg[1]))
         /\ trace = <<>>
         /\ nCalls = 0

C10_Witness ==
    /\ caller = "validate_repo_format"
    /\ repoArg[1] = <<"a", "/", "-", "\n">>
    /\ outcome[1].value = Some(FALSE)

====
